---- MODULE Spec2Model ----
(***************************************************************************)
(* The benchmark programs of go-structs-vs-cpp-classes as one state        *)
(* machine.  A behaviour is the run of one program: its driver (main)      *)
(* prints a header, calls each of its two benchmark functions once as a    *)
(* warm-up and once timed, derives the per-operation figures and prints    *)
(* the ratio.  A benchmark function is stepped statement by statement:     *)
(* every element creation, clock reading, element visit, guard, release    *)
(* and return is one step.                                                 *)
(*                                                                         *)
(* Programs (the file each one models):                                    *)
(*   cpp_pointer_chasing       src/cpp/pointer_chasing.cpp                 *)
(*   go_pointer_chasing        src/go/pointer_chasing.go, lines 1-116      *)
(*                             (lines 118-215 repeat it with other prose)  *)
(*   cpp_virtual_dispatch      src/cpp/virtual_dispatch.cpp                *)
(*   cpp_virtual_dispatch_v1   src/unnamed/part_001 (the earlier edition)  *)
(*   go_virtual_dispatch       src/unnamed/part_003                        *)
(*   cpp_allocation            src/unnamed/part_002                        *)
(*   go_allocation             src/go/pointer_chasing.go, lines 217-307    *)
(*   cpp_allocation_realistic  src/cpp/allocation_realistic.cpp            *)
(*   go_allocation_realistic   src/unnamed/part_004                        *)
(*                                                                         *)
(* The two functions of part_001 are named benchmark_virtual_v1 and        *)
(* benchmark_static_v1 here, to tell them from those of the later edition. *)
(***************************************************************************)
EXTENDS Integers, Sequences, FiniteSets, TLC

(***************************************************************************)
(* Bounds.  The programs run with n = 10^6 or 10^7, iterations = 10 or     *)
(* 100 and a warm-up of n = 1000, iterations = 10; the model runs the same *)
(* code on scaled-down sizes.                                              *)
(***************************************************************************)
MaxN == 5
MaxK == 2
WarmN == 2
WarmK == 1
MaxTick == 1

\* The literal arguments of the warm-up calls: benchmark_...(1000, 10).
WarmupN == 1000
WarmupK == 10

\* int data[10] / Data [10]int: the filler payload of the realistic Point.
DataLen == 10

\* The literal 3.14159, in units of 10^-5.
PiScaled == 314159

Programs ==
    { "cpp_pointer_chasing", "go_pointer_chasing", "cpp_virtual_dispatch",
      "cpp_virtual_dispatch_v1", "go_virtual_dispatch", "cpp_allocation",
      "go_allocation", "cpp_allocation_realistic", "go_allocation_realistic" }

\* The benchmark function main calls first (warm-up and timed alike).
First(pr) ==
    CASE pr = "cpp_pointer_chasing"      -> "benchmark_pointer_array"
      [] pr = "go_pointer_chasing"       -> "benchmarkValueArray"
      [] pr = "cpp_virtual_dispatch"     -> "benchmark_virtual"
      [] pr = "cpp_virtual_dispatch_v1"  -> "benchmark_virtual_v1"
      [] pr = "go_virtual_dispatch"      -> "benchmarkInterface"
      [] pr = "cpp_allocation"           -> "benchmark_heap"
      [] pr = "go_allocation"            -> "benchmarkHeap"
      [] pr = "cpp_allocation_realistic" -> "benchmark_heap_realistic"
      [] pr = "go_allocation_realistic"  -> "benchmarkHeapRealistic"

\* The benchmark function main calls second.
Second(pr) ==
    CASE pr = "cpp_pointer_chasing"      -> "benchmark_value_array"
      [] pr = "go_pointer_chasing"       -> "benchmarkPointerArray"
      [] pr = "cpp_virtual_dispatch"     -> "benchmark_static"
      [] pr = "cpp_virtual_dispatch_v1"  -> "benchmark_static_v1"
      [] pr = "go_virtual_dispatch"      -> "benchmarkConcrete"
      [] pr = "cpp_allocation"           -> "benchmark_stack"
      [] pr = "go_allocation"            -> "benchmarkStack"
      [] pr = "cpp_allocation_realistic" -> "benchmark_stack_realistic"
      [] pr = "go_allocation_realistic"  -> "benchmarkStackRealistic"

\* main: const n, as the source has it.
ConstN(pr) ==
    IF pr \in { "cpp_pointer_chasing", "go_pointer_chasing",
                "cpp_allocation_realistic", "go_allocation_realistic" }
    THEN 1000000 ELSE 10000000

\* main: const iterations, as the source has it (0 where there is none).
ConstK(pr) ==
    CASE pr \in {"cpp_pointer_chasing", "go_pointer_chasing"} -> 100
      [] pr \in {"cpp_virtual_dispatch", "cpp_virtual_dispatch_v1",
                 "go_virtual_dispatch"}                        -> 10
      [] OTHER                                                 -> 0

\* Programs whose benchmark functions take an iteration count.
HasIterations(pr) ==
    pr \in { "cpp_pointer_chasing", "go_pointer_chasing", "cpp_virtual_dispatch",
             "cpp_virtual_dispatch_v1", "go_virtual_dispatch" }

\* Functions of the shape: build the population, start, K passes, end.
PassFns ==
    { "benchmark_pointer_array", "benchmark_value_array",
      "benchmarkValueArray", "benchmarkPointerArray",
      "benchmark_virtual", "benchmark_static",
      "benchmark_virtual_v1", "benchmark_static_v1",
      "benchmarkInterface", "benchmarkConcrete" }

\* Functions of the shape: start, N times (create, touch, drop), end.
DiscardFns == { "benchmark_heap", "benchmark_stack", "benchmarkHeap", "benchmarkStack" }

\* Functions of the shape: start, N appends, end, sum, sink.
RetainFns ==
    { "benchmark_heap_realistic", "benchmark_stack_realistic",
      "benchmarkHeapRealistic", "benchmarkStackRealistic" }

\* The variant of each pair that works through references: the pointer
\* array, the dynamic dispatch, the heap allocation.
ReferenceFns ==
    { "benchmark_pointer_array", "benchmarkPointerArray", "benchmark_virtual",
      "benchmark_virtual_v1", "benchmarkInterface", "benchmark_heap",
      "benchmarkHeap", "benchmark_heap_realistic", "benchmarkHeapRealistic" }

\* The Go functions: make() gives the slice its length, time.Since ends the clock.
GoFns ==
    { "benchmarkValueArray", "benchmarkPointerArray", "benchmarkInterface",
      "benchmarkConcrete", "benchmarkHeap", "benchmarkStack",
      "benchmarkHeapRealistic", "benchmarkStackRealistic" }

(***************************************************************************)
(* Integer conversions.                                                    *)
(***************************************************************************)
\* The largest value of a 32-bit int.
IntMax == 2147483647

\* static_cast<int>(i), and the implicit size_t -> int of p->x = i, for an
\* index below 2^32: a value above IntMax wraps to v - 2^32.
ToInt(v) == IF v <= IntMax THEN v ELSE ((v - IntMax) - IntMax) - 2

(***************************************************************************)
(* Collection elements.  An element of a collection is either a record     *)
(* stored inline (ref = FALSE, val the record) or a reference to a         *)
(* separately allocated record (ref = TRUE, addr its address; 0 is the     *)
(* null reference).  itab is the dynamic type word of a Go interface       *)
(* value, "" for every other element.                                      *)
(***************************************************************************)
Inline(r) == [ref |-> FALSE, addr |-> 0, itab |-> "", val |-> <<r>>]
Ref(a) == [ref |-> TRUE, addr |-> a, itab |-> "", val |-> <<>>]
Iface(t, a) == [ref |-> TRUE, addr |-> a, itab |-> t, val |-> <<>>]

\* What one statement creating a record yields: the element to store and,
\* when the record is allocated on its own, the record put at address a.
Made(e, objs) == [elem |-> e, obj |-> objs]

(***************************************************************************)
(* The record-creating statement of each benchmark function: idx is the    *)
(* loop index, a the address the allocator hands out if the statement      *)
(* allocates.                                                              *)
(***************************************************************************)
\* points.push_back(new Point{static_cast<int>(i), static_cast<int>(i)});
New_benchmark_pointer_array(idx, a) ==
    Made(Ref(a), <<[x |-> ToInt(idx), y |-> ToInt(idx)]>>)

\* points.push_back({static_cast<int>(i), static_cast<int>(i)});
New_benchmark_value_array(idx, a) ==
    Made(Inline([x |-> ToInt(idx), y |-> ToInt(idx)]), <<>>)

\* points[i] = Point{X: i, Y: i}
New_benchmarkValueArray(idx, a) ==
    Made(Inline([X |-> idx, Y |-> idx]), <<>>)

\* Mutant: the scattered records get no Y.
New_benchmarkPointerArray_NoY(idx, a) ==
    Made(Ref(a), <<[X |-> idx, Y |-> 0]>>)

\* points[i] = &Point{X: i, Y: i}
New_benchmarkPointerArray(idx, a) ==
    Made(Ref(a), <<[X |-> idx, Y |-> idx]>>)

\* VirtualCircle c; c.radius = i; circles.push_back(c);
New_benchmark_virtual(idx, a) ==
    Made(Inline([vptr |-> "VirtualCircle", radius |-> ToInt(idx)]), <<>>)

\* circles.push_back({static_cast<int>(i)});
New_benchmark_static(idx, a) ==
    Made(Inline([radius |-> ToInt(idx)]), <<>>)

\* shapes.push_back(new Circle(i));   (Circle(int r): radius(r))
New_benchmark_virtual_v1(idx, a) ==
    Made(Ref(a), <<[vptr |-> "Circle", radius |-> ToInt(idx)]>>)

\* circles.push_back({static_cast<int>(i)});
New_benchmark_static_v1(idx, a) ==
    Made(Inline([radius |-> ToInt(idx)]), <<>>)

\* shapes[i] = Circle{Radius: i}: the Circle is converted to a Shape, an
\* interface value made of the dynamic type and a reference to a copy of
\* the Circle that is stored apart from the slice.
New_benchmarkInterface(idx, a) ==
    Made(Iface("Circle", a), <<[Radius |-> idx]>>)

\* circles[i] = Circle{Radius: i}
New_benchmarkConcrete(idx, a) ==
    Made(Inline([Radius |-> idx]), <<>>)

\* Point* p = new Point{static_cast<int>(i), static_cast<int>(i)};
New_benchmark_heap(idx, a) ==
    Made(Ref(a), <<[x |-> ToInt(idx), y |-> ToInt(idx)]>>)

\* Point p{static_cast<int>(i), static_cast<int>(i)};
New_benchmark_stack(idx, a) ==
    Made(Inline([x |-> ToInt(idx), y |-> ToInt(idx)]), <<>>)

\* p := Point{X: i, Y: i}; return &p
createHeap(idx, a) ==
    Made(Ref(a), <<[X |-> idx, Y |-> idx]>>)

\* p := Point{X: i, Y: i}; return p
createStack(idx, a) ==
    Made(Inline([X |-> idx, Y |-> idx]), <<>>)

\* Point* p = new Point{}; p->x = i; p->y = i;
New_benchmark_heap_realistic(idx, a) ==
    Made(Ref(a), <<[x |-> ToInt(idx), y |-> ToInt(idx),
                    data |-> [j \in 1..DataLen |-> 0]]>>)

\* Point p{}; p.x = i; p.y = i;
New_benchmark_stack_realistic(idx, a) ==
    Made(Inline([x |-> ToInt(idx), y |-> ToInt(idx),
                 data |-> [j \in 1..DataLen |-> 0]]), <<>>)

\* p := &Point{}; p.X = i; p.Y = i
New_benchmarkHeapRealistic(idx, a) ==
    Made(Ref(a), <<[X |-> idx, Y |-> idx, Data |-> [j \in 1..DataLen |-> 0]]>>)

\* p := Point{}; p.X = i; p.Y = i
New_benchmarkStackRealistic(idx, a) ==
    Made(Inline([X |-> idx, Y |-> idx, Data |-> [j \in 1..DataLen |-> 0]]), <<>>)

New(f, idx, a) ==
    CASE f = "benchmark_pointer_array"   -> New_benchmark_pointer_array(idx, a)
      [] f = "benchmark_value_array"     -> New_benchmark_value_array(idx, a)
      [] f = "benchmarkValueArray"       -> New_benchmarkValueArray(idx, a)
      [] f = "benchmarkPointerArray"     -> New_benchmarkPointerArray(idx, a)
      [] f = "benchmark_virtual"         -> New_benchmark_virtual(idx, a)
      [] f = "benchmark_static"          -> New_benchmark_static(idx, a)
      [] f = "benchmark_virtual_v1"      -> New_benchmark_virtual_v1(idx, a)
      [] f = "benchmark_static_v1"       -> New_benchmark_static_v1(idx, a)
      [] f = "benchmarkInterface"        -> New_benchmarkInterface(idx, a)
      [] f = "benchmarkConcrete"         -> New_benchmarkConcrete(idx, a)
      [] f = "benchmark_heap"            -> New_benchmark_heap(idx, a)
      [] f = "benchmark_stack"           -> New_benchmark_stack(idx, a)
      [] f = "benchmarkHeap"             -> createHeap(idx, a)
      [] f = "benchmarkStack"            -> createStack(idx, a)
      [] f = "benchmark_heap_realistic"  -> New_benchmark_heap_realistic(idx, a)
      [] f = "benchmark_stack_realistic" -> New_benchmark_stack_realistic(idx, a)
      [] f = "benchmarkHeapRealistic"    -> New_benchmarkHeapRealistic(idx, a)
      [] f = "benchmarkStackRealistic"   -> New_benchmarkStackRealistic(idx, a)

(***************************************************************************)
(* area() / Area().  A double is modelled by the exact value of the        *)
(* expression in units of 10^-5; the order of the multiplications is the   *)
(* source's.                                                               *)
(***************************************************************************)
\* Mutant: the virtual area multiplies by the radius once.
VirtualCircle_area_NotSquared(c) == PiScaled * c.radius

\* VirtualCircle::area: return 3.14159 * radius * radius;
VirtualCircle_area(c) == (PiScaled * c.radius) * c.radius

\* ConcreteCircle::area (virtual_dispatch.cpp): return 3.14159 * radius * radius;
ConcreteCircle_area(c) == (PiScaled * c.radius) * c.radius

\* Circle::area (part_001): return 3.14159 * radius * radius;
Circle_area_v1(c) == (PiScaled * c.radius) * c.radius

\* ConcreteCircle::area (part_001): return 3.14159 * radius * radius;
ConcreteCircle_area_v1(c) == (PiScaled * c.radius) * c.radius

\* Mutant: the constant cut to 3.14.
Circle_Area_Pi314(c) == 314000 * (c.Radius * c.Radius)

\* func (c Circle) Area() float64 { return 3.14159 * float64(c.Radius*c.Radius) }
Circle_Area(c) == PiScaled * (c.Radius * c.Radius)

\* A call through the object's vtable pointer (C++).
VirtualCall(c) ==
    CASE c.vptr = "VirtualCircle" -> VirtualCircle_area(c)
      [] c.vptr = "Circle"        -> Circle_area_v1(c)

\* A call through a Go interface value: the method of the dynamic type, on
\* the value the data word refers to.
InterfaceCall(e, h) ==
    CASE e.itab = "Circle" -> Circle_Area(h[e.addr])

(***************************************************************************)
(* What one element contributes to the running sum: e is the collection    *)
(* element, h the heap.                                                    *)
(***************************************************************************)
\* Mutant: the scattered pass reads only one of the two fields.
Term_benchmark_pointer_array_OneField(e, h) == h[e.addr].x

\* sum += points[i]->x + points[i]->y;
Term_benchmark_pointer_array(e, h) == h[e.addr].x + h[e.addr].y

\* sum += points[i].x + points[i].y;
Term_benchmark_value_array(e, h) == e.val[1].x + e.val[1].y

\* sum += points[i].X + points[i].Y   ([]Point)
Term_benchmarkValueArray(e, h) == e.val[1].X + e.val[1].Y

\* sum += points[i].X + points[i].Y   ([]*Point)
Term_benchmarkPointerArray(e, h) == h[e.addr].X + h[e.addr].Y

\* sum += circles[i].area();  // Virtual call (vtable lookup)
Term_benchmark_virtual(e, h) == VirtualCall(e.val[1])

\* sum += circles[i].area();  // Static call (can be inlined)
Term_benchmark_static(e, h) == ConcreteCircle_area(e.val[1])

\* sum += shapes[i]->area();  // Virtual call
Term_benchmark_virtual_v1(e, h) == VirtualCall(h[e.addr])

\* sum += circles[i].area();  // Static call (can be inlined)
Term_benchmark_static_v1(e, h) == ConcreteCircle_area_v1(e.val[1])

\* sum += shapes[i].Area()  // Interface call (dynamic dispatch)
Term_benchmarkInterface(e, h) == InterfaceCall(e, h)

\* sum += circles[i].Area()  // Direct call (can be inlined)
Term_benchmarkConcrete(e, h) == Circle_Area(e.val[1])

\* Mutant: the heap variant's use-the-data pass reads only one field.
Term_benchmark_heap_realistic_OneField(e, h) == h[e.addr].x

\* sum += p->x + p->y;   (for (auto* p : points))
Term_benchmark_heap_realistic(e, h) == h[e.addr].x + h[e.addr].y

\* sum += p.x + p.y;   (for (const auto& p : points))
Term_benchmark_stack_realistic(e, h) == e.val[1].x + e.val[1].y

\* sum += int64(p.X + p.Y)   (range over []*Point)
Term_benchmarkHeapRealistic(e, h) == h[e.addr].X + h[e.addr].Y

\* The fields of a record that the summing statement of a retain function
\* names: p->x and p->y, p.X and p.Y.
FieldsRead(f) == IF f \in GoFns THEN {"X", "Y"} ELSE {"x", "y"}

\* sum += int64(p.X + p.Y)   (range over []Point)
Term_benchmarkStackRealistic(e, h) == e.val[1].X + e.val[1].Y

Term(f, e, h) ==
    CASE f = "benchmark_pointer_array"   -> Term_benchmark_pointer_array(e, h)
      [] f = "benchmark_value_array"     -> Term_benchmark_value_array(e, h)
      [] f = "benchmarkValueArray"       -> Term_benchmarkValueArray(e, h)
      [] f = "benchmarkPointerArray"     -> Term_benchmarkPointerArray(e, h)
      [] f = "benchmark_virtual"         -> Term_benchmark_virtual(e, h)
      [] f = "benchmark_static"          -> Term_benchmark_static(e, h)
      [] f = "benchmark_virtual_v1"      -> Term_benchmark_virtual_v1(e, h)
      [] f = "benchmark_static_v1"       -> Term_benchmark_static_v1(e, h)
      [] f = "benchmarkInterface"        -> Term_benchmarkInterface(e, h)
      [] f = "benchmarkConcrete"         -> Term_benchmarkConcrete(e, h)
      [] f = "benchmark_heap_realistic"  -> Term_benchmark_heap_realistic(e, h)
      [] f = "benchmark_stack_realistic" -> Term_benchmark_stack_realistic(e, h)
      [] f = "benchmarkHeapRealistic"    -> Term_benchmarkHeapRealistic(e, h)
      [] f = "benchmarkStackRealistic"   -> Term_benchmarkStackRealistic(e, h)

\* The value the allocate-and-discard guard tests: p->x, p.x, p.X.
Touched(f, e, h) ==
    CASE f = "benchmark_heap"  -> h[e.addr].x
      [] f = "benchmark_stack" -> e.val[1].x
      [] f = "benchmarkHeap"   -> h[e.addr].X
      [] f = "benchmarkStack"  -> e.val[1].X

\* The element a freshly declared collection holds at every index:
\* make([]Point, n), make([]*Point, n), make([]Shape, n), make([]Circle, n).
ZeroElem(f) ==
    CASE f = "benchmarkValueArray"   -> Inline([X |-> 0, Y |-> 0])
      [] f = "benchmarkPointerArray" -> Ref(0)
      [] f = "benchmarkInterface"    -> Iface("", 0)
      [] f = "benchmarkConcrete"     -> Inline([Radius |-> 0])

(***************************************************************************)
(* State.                                                                  *)
(***************************************************************************)
VARIABLES
    prog,        \* the program that runs
    n,           \* main: const n
    iterations,  \* main: const iterations (0 in a program that has none)
    tick,        \* how far the clock advances per step
    mpc,         \* main: the statement it is at
    inv,         \* number of benchmark invocations made so far
    fn,          \* the benchmark function executing, "" when none
    argN,        \* its parameter n
    argK,        \* its parameter iterations
    fpc,         \* the statement it is at, "idle" when none executes
    i,           \* its loop variable i
    iter,        \* its loop variable iter
    sum,         \* its accumulator
    points,      \* its collection (points, circles, shapes)
    cap,         \* the capacity of the collection
    p,           \* the local record of an allocate-and-discard iteration
    heap,        \* the individually allocated records that are live
    relCount,    \* per address ever allocated: how often it was released
    nextAddr,    \* the next address the allocator hands out
    now,         \* the clock
    clock,       \* "unset", "running" (start taken), "stopped" (end taken)
    start,       \* the start instant
    end,         \* the end instant
    ret,         \* the value the last invocation returned
    firstTime,   \* main: the duration of the first timed invocation
    secondTime,  \* main: the duration of the second timed invocation
    firstPer,    \* main: the per-operation figure of the first variant
    secondPer,   \* main: the per-operation figure of the second variant
    speedup,     \* main: the ratio, as <<numerator, denominator>>
    gSum,        \* the global sink g_sum / gSum
    out,         \* standard output, line by line
    log          \* the events of the run so far, in order

config == <<prog, n, iterations, tick>>
frame == <<fn, argN, argK, fpc, i, iter, sum, points, cap, p>>
memory == <<heap, relCount, nextAddr>>
timing == <<clock, start, end>>
results == <<firstTime, secondTime, firstPer, secondPer, speedup>>
vars == <<config, mpc, inv, frame, memory, now, timing, ret, results, gSum, out, log>>

Init ==
    /\ prog \in Programs
    /\ n \in 1..MaxN
    /\ iterations \in (IF HasIterations(prog) THEN 1..MaxK ELSE {0})
    /\ tick \in 0..MaxTick
    /\ mpc = "header"
    /\ inv = 0
    /\ fn = ""
    /\ argN = 0
    /\ argK = 0
    /\ fpc = "idle"
    /\ i = 0
    /\ iter = 0
    /\ sum = 0
    /\ points = <<>>
    /\ cap = 0
    /\ p = <<>>
    /\ heap = <<>>
    /\ relCount = <<>>
    /\ nextAddr = 1
    /\ now = 0
    /\ clock = "unset"
    /\ start = 0
    /\ end = 0
    /\ ret = 0
    /\ firstTime = 0
    /\ secondTime = 0
    /\ firstPer = 0
    /\ secondPer = 0
    /\ speedup = <<0, 0>>
    /\ gSum = 0
    /\ out = <<>>
    /\ log = <<>>

\* One event of the run: what happened (op), with which value (val), in
\* which invocation, and whether that invocation is a timed one.  The value
\* of a call is the number of records live at the call, of a create, append
\* or free the address, of a start or end the instant, of a pass, visit or
\* read the index, of a guard, touch or sink the value tested or written,
\* of a return the duration returned.
Event(op, v) ==
    [inv |-> inv, fn |-> fn, n |-> argN, k |-> argK,
     timed |-> mpc \in {"timed1", "timed2"}, op |-> op, val |-> v, at |-> now]

\* The statement about to run goes through a reference: it follows a
\* stored pointer or a dispatch table to the record, or has the allocator
\* make the record it stores a pointer to.
Indirect ==
    fn \in ReferenceFns /\ fpc \in {"visit", "new", "append"}

\* Every step takes time: one tick per memory access, two accesses where
\* the statement goes through a reference.
Tock == now' = now + (IF Indirect THEN tick + tick ELSE tick)

(***************************************************************************)
(* The allocator.                                                          *)
(***************************************************************************)
\* new / & / interface conversion: the record of m, if it has one, is put
\* at a fresh address.
Allocate(m) ==
    IF Len(m.obj) > 0
    THEN /\ heap' = heap @@ (nextAddr :> m.obj[1])
         /\ relCount' = relCount @@ (nextAddr :> 0)
         /\ nextAddr' = nextAddr + 1
    ELSE UNCHANGED memory

\* delete: the record at address a is released.
Release(a) ==
    /\ heap' = [b \in DOMAIN heap \ {a} |-> heap[b]]
    /\ relCount' = [relCount EXCEPT ![a] = @ + 1]
    /\ nextAddr' = nextAddr

\* The capacity after one more push_back / append onto a collection of
\* length len and capacity c: it grows only when the collection is full.
Grown(len, c) == IF len < c THEN c ELSE IF c = 0 THEN 1 ELSE 2 * c

(***************************************************************************)
(* The driver.                                                             *)
(***************************************************************************)
\* The lines main prints before the warm-up.
MainHeader ==
    /\ mpc = "header"
    /\ out' = Append(out, [line |-> "header", val |-> 0])
    /\ mpc' = "warm1"
    /\ Tock
    /\ UNCHANGED <<config, inv, frame, memory, timing, ret, results, gSum, log>>

\* main calls benchmark function f.  The source passes (sn, sk); the model
\* runs the function on the scaled-down (nn, kk) and records both.
Call(f, nn, kk, sn, sk) ==
    /\ fpc = "idle"
    /\ inv' = inv + 1
    /\ fn' = f
    /\ argN' = nn
    /\ argK' = kk
    /\ fpc' = IF f \in DiscardFns THEN "start" ELSE "entry"
    /\ i' = 0
    /\ iter' = 0
    /\ sum' = 0
    /\ points' = <<>>
    /\ cap' = 0
    /\ p' = <<>>
    /\ clock' = "unset"
    /\ start' = 0
    /\ end' = 0
    /\ log' = Append(log, [inv |-> inv + 1, fn |-> f, n |-> nn, k |-> kk,
                           timed |-> mpc \in {"timed1", "timed2"},
                           op |-> "call", val |-> Cardinality(DOMAIN heap),
                           at |-> now, srcN |-> sn, srcK |-> sk])
    /\ Tock
    /\ UNCHANGED <<config, mpc, memory, ret, results, gSum, out>>

\* Mutant: the first variant is warmed up twice, the second never.
MainWarmUp_OnlyFirst ==
    /\ mpc \in {"warm1", "warm2"}
    /\ Call(First(prog),
            WarmN, IF HasIterations(prog) THEN WarmK ELSE 0,
            WarmupN, IF HasIterations(prog) THEN WarmupK ELSE 0)

\* // Warm up: each variant once on the small population, result dropped.
MainWarmUp ==
    /\ mpc \in {"warm1", "warm2"}
    /\ Call(IF mpc = "warm1" THEN First(prog) ELSE Second(prog),
            WarmN, IF HasIterations(prog) THEN WarmK ELSE 0,
            WarmupN, IF HasIterations(prog) THEN WarmupK ELSE 0)

\* auto pointer_time = benchmark_pointer_array(n, iterations); and the like.
MainBenchmark ==
    /\ mpc \in {"timed1", "timed2"}
    /\ Call(IF mpc = "timed1" THEN First(prog) ELSE Second(prog),
            n, iterations, ConstN(prog), ConstK(prog))

\* Go's integer division: the quotient truncated toward zero.
GoDiv(a, b) == IF a >= 0 THEN a \div b ELSE -((-a) \div b)

\* Mutant: the divisor leaves the iteration count out.
PerOp_WithoutIterations(pr, t, nn, kk) ==
    IF pr \in {"go_pointer_chasing", "go_virtual_dispatch", "go_allocation",
               "go_allocation_realistic"}
    THEN GoDiv(t, nn)
    ELSE t \div nn

\* The per-operation figure main derives from duration t.
\* C++: t / (n * iterations) or t / n, computed in size_t (unsigned 64 bit);
\*      the conversion to size_t keeps the value of an operand >= 0, and
\*      a duration read off a clock that never runs backwards is >= 0.
\* Go:  t.Nanoseconds() / int64(n*iterations) or / int64(n).
PerOp(pr, t, nn, kk) ==
    CASE pr \in {"cpp_pointer_chasing", "cpp_virtual_dispatch", "cpp_virtual_dispatch_v1"}
           -> t \div (nn * kk)
      [] pr \in {"go_pointer_chasing", "go_virtual_dispatch"}
           -> GoDiv(t, nn * kk)
      [] pr \in {"cpp_allocation", "cpp_allocation_realistic"}
           -> t \div nn
      [] pr \in {"go_allocation", "go_allocation_realistic"}
           -> GoDiv(t, nn)

\* Mutant: the two result lines printed the other way round.
MainReport_PerOpFirst ==
    /\ mpc \in {"report1", "report2"}
    /\ fpc = "idle"
    /\ LET t == IF mpc = "report1" THEN firstTime ELSE secondTime
           per == PerOp(prog, t, n, iterations)
       IN  /\ firstPer' = IF mpc = "report1" THEN per ELSE firstPer
           /\ secondPer' = IF mpc = "report2" THEN per ELSE secondPer
           /\ out' = out \o << [line |-> "per_op", val |-> per],
                               [line |-> "total", val |-> t] >>
    /\ mpc' = IF mpc = "report1" THEN "timed2" ELSE "speedup"
    /\ Tock
    /\ UNCHANGED <<config, inv, frame, memory, timing, ret, firstTime, secondTime,
                   speedup, gSum, log>>

\* The total and per-operation lines of the variant that has just been timed.
MainReport ==
    /\ mpc \in {"report1", "report2"}
    /\ fpc = "idle"
    /\ LET t == IF mpc = "report1" THEN firstTime ELSE secondTime
           per == PerOp(prog, t, n, iterations)
       IN  /\ firstPer' = IF mpc = "report1" THEN per ELSE firstPer
           /\ secondPer' = IF mpc = "report2" THEN per ELSE secondPer
           /\ out' = out \o << [line |-> "total", val |-> t],
                               [line |-> "per_op", val |-> per] >>
    /\ mpc' = IF mpc = "report1" THEN "timed2" ELSE "speedup"
    /\ Tock
    /\ UNCHANGED <<config, inv, frame, memory, timing, ret, firstTime, secondTime,
                   speedup, gSum, log>>

\* Mutant: the first duration measured is always the numerator.
Speedup_InCallOrder(pr, t1, t2) == <<t1, t2>>

\* The ratio main prints, <<numerator, denominator>> of the double division.
Speedup(pr, t1, t2) ==
    IF pr = "go_pointer_chasing" THEN <<t2, t1>> ELSE <<t1, t2>>

\* double speedup = ...; the ratio line (and the closing notes).
MainSpeedup ==
    /\ mpc = "speedup"
    /\ fpc = "idle"
    /\ speedup' = Speedup(prog, firstTime, secondTime)
    /\ out' = Append(out, [line |-> "speedup", val |-> 0])
    /\ mpc' = "done"
    /\ Tock
    /\ UNCHANGED <<config, inv, frame, memory, timing, ret, firstTime, secondTime,
                   firstPer, secondPer, gSum, log>>

(***************************************************************************)
(* The benchmark functions.                                                *)
(***************************************************************************)
\* Mutant: the start instant is taken where the collection is declared,
\* before the population is built.
Declare_StartsClock ==
    /\ fpc = "entry"
    /\ points' = IF fn \in GoFns /\ fn \in PassFns
                 THEN [j \in 1..argN |-> ZeroElem(fn)]
                 ELSE <<>>
    /\ cap' = argN
    /\ start' = now
    /\ clock' = "running"
    /\ fpc' = IF fn \in PassFns /\ argN > 0 THEN "setup" ELSE "start"
    /\ log' = log \o <<Event("declare", argN), Event("start", now)>>
    /\ Tock
    /\ UNCHANGED <<config, mpc, inv, fn, argN, argK, i, iter, sum, p, memory,
                   end, ret, results, gSum, out>>

\* Mutant: the collection is declared without reserving its capacity.
Declare_NoReserve ==
    /\ fpc = "entry"
    /\ points' = IF fn \in GoFns /\ fn \in PassFns
                 THEN [j \in 1..argN |-> ZeroElem(fn)]
                 ELSE <<>>
    /\ cap' = 0
    /\ fpc' = IF fn \in PassFns /\ argN > 0 THEN "setup" ELSE "start"
    /\ log' = Append(log, Event("declare", argN))
    /\ Tock
    /\ UNCHANGED <<config, mpc, inv, fn, argN, argK, i, iter, sum, p, memory,
                   timing, ret, results, gSum, out>>

\* The collection is declared: std::vector<T> points; points.reserve(n);
\* or points := make([]T, n) (length n) or make([]T, 0, n) (length 0).
Declare ==
    /\ fpc = "entry"
    /\ points' = IF fn \in GoFns /\ fn \in PassFns
                 THEN [j \in 1..argN |-> ZeroElem(fn)]
                 ELSE <<>>
    /\ cap' = argN
    /\ fpc' = IF fn \in PassFns /\ argN > 0 THEN "setup" ELSE "start"
    /\ log' = Append(log, Event("declare", argN))
    /\ Tock
    /\ UNCHANGED <<config, mpc, inv, fn, argN, argK, i, iter, sum, p, memory,
                   timing, ret, results, gSum, out>>

\* One turn of the loop that builds the population, before the clock starts.
Populate ==
    /\ fpc = "setup"
    /\ LET m == New(fn, i, nextAddr)
       IN  /\ Allocate(m)
           /\ points' = IF fn \in GoFns
                        THEN [points EXCEPT ![i + 1] = m.elem]
                        ELSE Append(points, m.elem)
           /\ cap' = IF fn \in GoFns THEN cap ELSE Grown(Len(points), cap)
           /\ log' = Append(log, Event("create", m.elem.addr))
    /\ i' = i + 1
    /\ fpc' = IF i + 1 < argN THEN "setup" ELSE "start"
    /\ Tock
    /\ UNCHANGED <<config, mpc, inv, fn, argN, argK, iter, sum, p, timing, ret,
                   results, gSum, out>>

\* auto start = high_resolution_clock::now();   start := time.Now()
StartClock ==
    /\ fpc = "start"
    /\ start' = now
    /\ clock' = "running"
    /\ i' = 0
    /\ iter' = 0
    /\ fpc' = CASE fn \in PassFns    -> IF argK > 0 THEN "iter" ELSE "end"
                [] fn \in DiscardFns -> IF argN > 0 THEN "new" ELSE "end"
                [] fn \in RetainFns  -> IF argN > 0 THEN "append" ELSE "end"
    /\ log' = Append(log, Event("start", now))
    /\ Tock
    /\ UNCHANGED <<config, mpc, inv, fn, argN, argK, sum, points, cap, p, memory,
                   end, ret, results, gSum, out>>

\* Mutant: the accumulator is declared outside the loop over the passes.
BeginPass_NoReset ==
    /\ fpc = "iter"
    /\ i' = 0
    /\ fpc' = IF argN > 0 THEN "visit" ELSE "guard"
    /\ log' = Append(log, Event("pass", iter))
    /\ Tock
    /\ UNCHANGED <<config, mpc, inv, fn, argN, argK, iter, sum, points, cap, p, memory,
                   timing, ret, results, gSum, out>>

\* for (iter ...) { long long sum = 0;   the head of one pass.
BeginPass ==
    /\ fpc = "iter"
    /\ sum' = 0
    /\ i' = 0
    /\ fpc' = IF argN > 0 THEN "visit" ELSE "guard"
    /\ log' = Append(log, Event("pass", iter))
    /\ Tock
    /\ UNCHANGED <<config, mpc, inv, fn, argN, argK, iter, points, cap, p, memory,
                   timing, ret, results, gSum, out>>

\* Mutant: the element read is overwritten with the first one.
Visit_Overwrites ==
    /\ fpc = "visit"
    /\ sum' = sum + Term(fn, points[i + 1], heap)
    /\ points' = [points EXCEPT ![i + 1] = points[1]]
    /\ i' = i + 1
    /\ fpc' = IF i + 1 < argN THEN "visit" ELSE "guard"
    /\ log' = Append(log, Event("visit", i))
    /\ Tock
    /\ UNCHANGED <<config, mpc, inv, fn, argN, argK, iter, cap, p, memory,
                   timing, ret, results, gSum, out>>

\* Mutant: the loop ends one element early.
Visit_StopsEarly ==
    /\ fpc = "visit"
    /\ sum' = sum + Term(fn, points[i + 1], heap)
    /\ i' = i + 1
    /\ fpc' = IF i + 1 < argN - 1 THEN "visit" ELSE "guard"
    /\ log' = Append(log, Event("visit", i))
    /\ Tock
    /\ UNCHANGED <<config, mpc, inv, fn, argN, argK, iter, points, cap, p, memory,
                   timing, ret, results, gSum, out>>

\* Mutant: the element is subtracted from the accumulator.
Visit_Subtracts ==
    /\ fpc = "visit"
    /\ sum' = sum - Term(fn, points[i + 1], heap)
    /\ i' = i + 1
    /\ fpc' = IF i + 1 < argN THEN "visit" ELSE "guard"
    /\ log' = Append(log, Event("visit", i))
    /\ Tock
    /\ UNCHANGED <<config, mpc, inv, fn, argN, argK, iter, points, cap, p, memory,
                   timing, ret, results, gSum, out>>

\* for (i ...) sum += <element i>;   one element of a pass.
Visit ==
    /\ fpc = "visit"
    /\ sum' = sum + Term(fn, points[i + 1], heap)
    /\ i' = i + 1
    /\ fpc' = IF i + 1 < argN THEN "visit" ELSE "guard"
    /\ log' = Append(log, Event("visit", i))
    /\ Tock
    /\ UNCHANGED <<config, mpc, inv, fn, argN, argK, iter, points, cap, p, memory,
                   timing, ret, results, gSum, out>>

\* if (sum < 0) std::cout << sum;   and the end of the pass.
Guard ==
    /\ fpc = "guard"
    /\ out' = IF sum < 0 THEN Append(out, [line |-> "guard", val |-> sum]) ELSE out
    /\ iter' = iter + 1
    /\ fpc' = IF iter + 1 < argK THEN "iter" ELSE "end"
    /\ log' = Append(log, Event("guard", sum))
    /\ Tock
    /\ UNCHANGED <<config, mpc, inv, fn, argN, argK, i, sum, points, cap, p, memory,
                   timing, ret, results, gSum>>

\* Functions that release their records one by one before returning.
CleanupFns == {"benchmark_pointer_array", "benchmark_virtual_v1", "benchmark_heap_realistic"}

\* Mutant: the end instant is not taken before the cleanup; the clock is
\* still running while the records are released.
EndClock_AfterCleanup ==
    /\ fpc = "end"
    /\ end' = IF fn \in CleanupFns THEN end ELSE now
    /\ clock' = IF fn \in CleanupFns THEN clock ELSE "stopped"
    /\ i' = 0
    /\ sum' = IF fn \in RetainFns THEN 0 ELSE sum
    /\ fpc' = CASE fn \in RetainFns -> IF Len(points) > 0 THEN "sum" ELSE "sink"
                [] fn \in PassFns /\ fn \in CleanupFns
                                    -> IF Len(points) > 0 THEN "cleanup" ELSE "return"
                [] OTHER            -> "return"
    /\ log' = Append(log, Event("end", now))
    /\ Tock
    /\ UNCHANGED <<config, mpc, inv, fn, argN, argK, iter, points, cap, p, memory,
                   start, ret, results, gSum, out>>

\* auto end = ...now();  auto alloc_end = ...now();  time.Since(start);
\* allocEnd := time.Now()   and where control goes from there.
EndClock ==
    /\ fpc = "end"
    /\ end' = now
    /\ clock' = "stopped"
    /\ i' = 0
    /\ sum' = IF fn \in RetainFns THEN 0 ELSE sum
    /\ fpc' = CASE fn \in RetainFns -> IF Len(points) > 0 THEN "sum" ELSE "sink"
                [] fn \in PassFns /\ fn \in CleanupFns
                                    -> IF Len(points) > 0 THEN "cleanup" ELSE "return"
                [] OTHER            -> "return"
    /\ log' = Append(log, Event("end", now))
    /\ Tock
    /\ UNCHANGED <<config, mpc, inv, fn, argN, argK, iter, points, cap, p, memory,
                   start, ret, results, gSum, out>>

\* Allocate-and-discard: the record of this iteration is created.
\* Point* p = new Point{...};   Point p{...};   p := createHeap(i)
Create ==
    /\ fpc = "new"
    /\ LET m == New(fn, i, nextAddr)
       IN  /\ Allocate(m)
           /\ p' = <<m.elem>>
           /\ log' = Append(log, Event("create", m.elem.addr))
    /\ fpc' = "touch"
    /\ Tock
    /\ UNCHANGED <<config, mpc, inv, fn, argN, argK, i, iter, sum, points, cap,
                   timing, ret, results, gSum, out>>

\* if (p->x < 0) std::cout << p->x;   Where nothing is released (the value
\* and the Go variants) the iteration ends here and p goes out of scope.
Touch ==
    /\ fpc = "touch"
    /\ LET v == Touched(fn, p[1], heap)
       IN  /\ out' = IF v < 0 THEN Append(out, [line |-> "guard", val |-> v]) ELSE out
           /\ log' = Append(log, Event("touch", v))
    /\ IF fn = "benchmark_heap"
       THEN /\ fpc' = "delete"
            /\ UNCHANGED <<i, p>>
       ELSE /\ p' = <<>>
            /\ i' = i + 1
            /\ fpc' = IF i + 1 < argN THEN "new" ELSE "end"
    /\ Tock
    /\ UNCHANGED <<config, mpc, inv, fn, argN, argK, iter, sum, points, cap, memory,
                   timing, ret, results, gSum>>

\* Mutant: the iteration ends without releasing the record.
Delete_Forgets ==
    /\ fpc = "delete"
    /\ UNCHANGED memory
    /\ log' = Append(log, Event("free", p[1].addr))
    /\ p' = <<>>
    /\ i' = i + 1
    /\ fpc' = IF i + 1 < argN THEN "new" ELSE "end"
    /\ Tock
    /\ UNCHANGED <<config, mpc, inv, fn, argN, argK, iter, sum, points, cap,
                   timing, ret, results, gSum, out>>

\* delete p;   and the end of the iteration (benchmark_heap).
Delete ==
    /\ fpc = "delete"
    /\ Release(p[1].addr)
    /\ log' = Append(log, Event("free", p[1].addr))
    /\ p' = <<>>
    /\ i' = i + 1
    /\ fpc' = IF i + 1 < argN THEN "new" ELSE "end"
    /\ Tock
    /\ UNCHANGED <<config, mpc, inv, fn, argN, argK, iter, sum, points, cap,
                   timing, ret, results, gSum, out>>

\* Mutant: the new record is put in front of the collection.
AllocAppend_Prepends ==
    /\ fpc = "append"
    /\ LET m == New(fn, i, nextAddr)
       IN  /\ Allocate(m)
           /\ points' = <<m.elem>> \o points
           /\ cap' = Grown(Len(points), cap)
           /\ log' = Append(log, Event("append", m.elem.addr))
    /\ i' = i + 1
    /\ fpc' = IF i + 1 < argN THEN "append" ELSE "end"
    /\ Tock
    /\ UNCHANGED <<config, mpc, inv, fn, argN, argK, iter, sum, p, timing, ret,
                   results, gSum, out>>

\* Allocate-and-retain: one record is created, initialised and appended.
AllocAppend ==
    /\ fpc = "append"
    /\ LET m == New(fn, i, nextAddr)
       IN  /\ Allocate(m)
           /\ points' = Append(points, m.elem)
           /\ cap' = Grown(Len(points), cap)
           /\ log' = Append(log, Event("append", m.elem.addr))
    /\ i' = i + 1
    /\ fpc' = IF i + 1 < argN THEN "append" ELSE "end"
    /\ Tock
    /\ UNCHANGED <<config, mpc, inv, fn, argN, argK, iter, sum, p, timing, ret,
                   results, gSum, out>>

\* for (auto* p : points) sum += p->x + p->y;   one record of the pass that
\* uses the data after the allocation was timed.
SumRead ==
    /\ fpc = "sum"
    /\ sum' = sum + Term(fn, points[i + 1], heap)
    /\ i' = i + 1
    /\ fpc' = IF i + 1 < Len(points) THEN "sum" ELSE "sink"
    /\ log' = Append(log, Event("read", i) @@ [fields |-> FieldsRead(fn)])
    /\ Tock
    /\ UNCHANGED <<config, mpc, inv, fn, argN, argK, iter, points, cap, p, memory,
                   timing, ret, results, gSum, out>>

\* g_sum = sum;   gSum = sum
SinkWrite ==
    /\ fpc = "sink"
    /\ gSum' = sum
    /\ i' = 0
    /\ fpc' = IF fn \in CleanupFns /\ Len(points) > 0 THEN "cleanup" ELSE "return"
    /\ log' = Append(log, Event("sink", sum))
    /\ Tock
    /\ UNCHANGED <<config, mpc, inv, fn, argN, argK, iter, sum, points, cap, p,
                   memory, timing, ret, results, out>>

\* Mutant: the cleanup loop ends one record early, the last one leaks.
Cleanup_StopsEarly ==
    /\ fpc = "cleanup"
    /\ Release(points[i + 1].addr)
    /\ log' = Append(log, Event("free", points[i + 1].addr))
    /\ i' = i + 1
    /\ fpc' = IF i + 1 < Len(points) - 1 THEN "cleanup" ELSE "return"
    /\ Tock
    /\ UNCHANGED <<config, mpc, inv, fn, argN, argK, iter, sum, points, cap, p,
                   timing, ret, results, gSum, out>>

\* Mutant: the cleanup loop starts at the second record, the first leaks.
Cleanup_SkipsFirst ==
    /\ fpc = "cleanup"
    /\ IF i = 0
       THEN UNCHANGED memory
       ELSE Release(points[i + 1].addr)
    /\ log' = Append(log, Event("free", points[i + 1].addr))
    /\ i' = i + 1
    /\ fpc' = IF i + 1 < Len(points) THEN "cleanup" ELSE "return"
    /\ Tock
    /\ UNCHANGED <<config, mpc, inv, fn, argN, argK, iter, sum, points, cap, p,
                   timing, ret, results, gSum, out>>

\* // Cleanup: for (auto* p : points) delete p;   one record of it.
Cleanup ==
    /\ fpc = "cleanup"
    /\ Release(points[i + 1].addr)
    /\ log' = Append(log, Event("free", points[i + 1].addr))
    /\ i' = i + 1
    /\ fpc' = IF i + 1 < Len(points) THEN "cleanup" ELSE "return"
    /\ Tock
    /\ UNCHANGED <<config, mpc, inv, fn, argN, argK, iter, sum, points, cap, p,
                   timing, ret, results, gSum, out>>

\* Mutant: the function returns the time since start as read at the return
\* statement, not the difference of the two instants it took.
Return_Since ==
    /\ fpc = "return"
    /\ ret' = now - start
    /\ firstTime' = IF mpc = "timed1" THEN now - start ELSE firstTime
    /\ secondTime' = IF mpc = "timed2" THEN now - start ELSE secondTime
    /\ mpc' = CASE mpc = "warm1"  -> "warm2"
                [] mpc = "warm2"  -> "timed1"
                [] mpc = "timed1" -> "report1"
                [] mpc = "timed2" -> "report2"
    /\ log' = Append(log, Event("return", now - start))
    /\ fn' = ""
    /\ argN' = 0
    /\ argK' = 0
    /\ fpc' = "idle"
    /\ points' = <<>>
    /\ cap' = 0
    /\ p' = <<>>
    /\ Tock
    /\ UNCHANGED <<config, inv, i, iter, sum, memory, timing, firstPer, secondPer,
                   speedup, gSum, out>>

\* Mutant: the difference taken the wrong way round.
Return_Swapped ==
    /\ fpc = "return"
    /\ ret' = start - end
    /\ firstTime' = IF mpc = "timed1" THEN start - end ELSE firstTime
    /\ secondTime' = IF mpc = "timed2" THEN start - end ELSE secondTime
    /\ mpc' = CASE mpc = "warm1"  -> "warm2"
                [] mpc = "warm2"  -> "timed1"
                [] mpc = "timed1" -> "report1"
                [] mpc = "timed2" -> "report2"
    /\ log' = Append(log, Event("return", start - end))
    /\ fn' = ""
    /\ argN' = 0
    /\ argK' = 0
    /\ fpc' = "idle"
    /\ points' = <<>>
    /\ cap' = 0
    /\ p' = <<>>
    /\ Tock
    /\ UNCHANGED <<config, inv, i, iter, sum, memory, timing, firstPer, secondPer,
                   speedup, gSum, out>>


\* return duration_cast<nanoseconds>(end - start).count();
\* return allocEnd.Sub(start)   The locals die, main takes the result.
Return ==
    /\ fpc = "return"
    /\ ret' = end - start
    /\ firstTime' = IF mpc = "timed1" THEN end - start ELSE firstTime
    /\ secondTime' = IF mpc = "timed2" THEN end - start ELSE secondTime
    /\ mpc' = CASE mpc = "warm1"  -> "warm2"
                [] mpc = "warm2"  -> "timed1"
                [] mpc = "timed1" -> "report1"
                [] mpc = "timed2" -> "report2"
    /\ log' = Append(log, Event("return", end - start))
    /\ fn' = ""
    /\ argN' = 0
    /\ argK' = 0
    /\ fpc' = "idle"
    /\ points' = <<>>
    /\ cap' = 0
    /\ p' = <<>>
    /\ Tock
    /\ UNCHANGED <<config, inv, i, iter, sum, memory, timing, firstPer, secondPer,
                   speedup, gSum, out>>

Next ==
    \/ MainHeader
    \/ MainWarmUp
    \/ MainBenchmark
    \/ MainReport
    \/ MainSpeedup
    \/ Declare
    \/ Populate
    \/ StartClock
    \/ BeginPass
    \/ Visit
    \/ Guard
    \/ EndClock
    \/ Create
    \/ Touch
    \/ Delete
    \/ AllocAppend
    \/ SumRead
    \/ SinkWrite
    \/ Cleanup
    \/ Return

Spec == Init /\ [][Next]_vars

\* A program is one thread that runs on whenever it has a next statement.
FairSpec == Spec /\ WF_vars(Next)

(***************************************************************************)
(* Properties.                                                             *)
(***************************************************************************)
\* The positions of the log at which invocation v did op.
At(v, op) == {j \in 1..Len(log) : log[j].inv = v /\ log[j].op = op}

\* The addresses invocation v allocated.
AllocatedBy(v) ==
    {log[j].val : j \in {j \in At(v, "create") \cup At(v, "append") : log[j].val # 0}}

\* Some record was released in this step.
Released == \E a \in DOMAIN relCount : relCount'[a] > relCount[a]

\* C1: in benchmark_pointer_array, benchmark_heap_realistic and the
\* pointer-based benchmark_virtual, each of the N individually allocated
\* records is released exactly once before the function returns: no record
\* is ever released twice, and at the return statement all N records of the
\* invocation have been released once and no record is live.
C1_ReleasedExactlyOnce ==
    /\ \A a \in DOMAIN relCount : relCount[a] <= 1
    /\ (/\ fn \in {"benchmark_pointer_array", "benchmark_heap_realistic",
                   "benchmark_virtual_v1"}
        /\ fpc = "return")
       => /\ Cardinality(AllocatedBy(inv)) = argN
          /\ \A a \in AllocatedBy(inv) : relCount[a] = 1
          /\ DOMAIN heap = {}

C1_Witness ==
    /\ fn = "benchmark_pointer_array"
    /\ fpc = "return"
    /\ argN = MaxN
    /\ \A a \in AllocatedBy(inv) : relCount[a] = 1

\* C2 as stated: in every benchmark, benchmark_heap included, no record is
\* released while the clock is running.
C2_NoReleaseWhileTimed == [][Released => clock # "running"]_vars

\* C2 as amended: in the benchmarks that keep their records until teardown
\* every release happens after the end instant was taken; in benchmark_heap
\* every release happens between the start and the end instant.
C2_ReleaseAfterEndUnlessDiscard ==
    [][Released => IF fn = "benchmark_heap"
                   THEN clock = "running"
                   ELSE clock = "stopped"]_vars

C2_Witness ==
    /\ fn = "benchmark_heap_realistic"
    /\ fpc = "cleanup"
    /\ i > 0
    /\ clock = "stopped"

\* The positions of the log at which function f did op.
Did(f, op) == {j \in 1..Len(log) : log[j].op = op /\ log[j].fn = f}

\* The values functions f and g logged with op agree whenever the two ran
\* on populations of the same size.
SameValues(f, g, op) ==
    \A a \in Did(f, op), b \in Did(g, op) :
        log[a].n = log[b].n => log[a].val = log[b].val

\* Functions f and g have each finished a pass on populations of one size
\* of at least m records.
BothPassed(f, g, m) ==
    \E a \in Did(f, "guard"), b \in Did(g, "guard") :
        log[a].n = log[b].n /\ log[a].n >= m

\* C3: with record i = (i, i) in both populations, every pass of the
\* contiguous pass accumulates the same sum as every pass of the scattered
\* pass over a population of the same size, in C++ and in Go.
C3_SameSum ==
    /\ SameValues("benchmark_value_array", "benchmark_pointer_array", "guard")
    /\ SameValues("benchmarkValueArray", "benchmarkPointerArray", "guard")

C3_Witness ==
    /\ BothPassed("benchmark_value_array", "benchmark_pointer_array", MaxN)
    /\ iterations >= 2

\* C4: on the same radii 0..N-1 a pass of the dynamic-dispatch variant
\* accumulates the same total as a pass of the static-dispatch variant, in
\* each edition of the dispatch benchmark.
C4_SameTotal ==
    /\ SameValues("benchmark_virtual", "benchmark_static", "guard")
    /\ SameValues("benchmark_virtual_v1", "benchmark_static_v1", "guard")
    /\ SameValues("benchmarkInterface", "benchmarkConcrete", "guard")

C4_Witness ==
    /\ BothPassed("benchmark_virtual", "benchmark_static", MaxN)
    /\ \E a \in Did("benchmark_virtual", "guard") : log[a].val > PiScaled

\* C5: run with the same N, heap-allocate-and-retain and
\* value-allocate-and-retain write the same sum to the global sink.
C5_SameSink ==
    /\ SameValues("benchmark_heap_realistic", "benchmark_stack_realistic", "sink")
    /\ SameValues("benchmarkHeapRealistic", "benchmarkStackRealistic", "sink")
    /\ (Len(log) > 0 /\ log[Len(log)].op = "sink") => gSum = log[Len(log)].val

C5_Witness ==
    /\ mpc = "done"
    /\ prog = "cpp_allocation_realistic"
    /\ n = MaxN
    /\ gSum > 0

\* The function invocation v runs (or ran) and the arguments it was given.
CallOf(v) == log[CHOOSE j \in At(v, "call") : TRUE]

\* C6: benchmark_heap retains nothing: at most one record is live at any
\* time, none when an iteration allocates, exactly the iteration's own
\* record while it is touched and released, and after the N-th iteration
\* N records have been allocated and released and the number of live
\* records is what it was when the function was called.
C6_NothingRetained ==
    fn = "benchmark_heap" =>
        /\ Cardinality(DOMAIN heap) <= 1
        /\ fpc = "new" => DOMAIN heap = {}
        /\ fpc \in {"touch", "delete"} => DOMAIN heap = {p[1].addr}
        /\ fpc = "end" => i = argN
        /\ fpc \in {"end", "return"} =>
              /\ Cardinality(At(inv, "create")) = argN
              /\ Cardinality({log[j].val : j \in At(inv, "free")}) = argN
              /\ Cardinality(DOMAIN heap) = CallOf(inv).val

C6_Witness ==
    /\ fn = "benchmark_heap"
    /\ fpc = "end"
    /\ argN = MaxN
    /\ \A a \in AllocatedBy(inv) : relCount[a] = 1

\* C7: in the pointer-chasing and dispatch functions all N elements are
\* created before the start instant, the first pass begins right after the
\* start instant, the end instant is taken right after the guard of the
\* K-th pass, only passes lie between the two instants, and every release
\* comes after the end instant.
C7_TimedRegionIsThePasses ==
    (inv > 0 /\ CallOf(inv).fn \in PassFns) =>
        LET c == CallOf(inv)
            creates == At(inv, "create")
            guards == At(inv, "guard")
        IN  /\ Cardinality(At(inv, "start")) <= 1
            /\ Cardinality(At(inv, "end")) <= 1
            /\ \A s \in At(inv, "start") :
                  /\ Cardinality(creates) = c.n
                  /\ \A j \in creates : j < s
                  /\ s < Len(log) => (log[s + 1].op = "pass" /\ log[s + 1].val = 0)
            /\ \A e \in At(inv, "end") :
                  /\ Cardinality(guards) = c.k
                  /\ \A j \in guards : j < e
                  /\ log[e - 1].op = "guard"
                  /\ \A s \in At(inv, "start") :
                        \A j \in (s + 1)..(e - 1) :
                            log[j].op \in {"pass", "visit", "guard"}
            /\ \A f \in At(inv, "free") : \E e \in At(inv, "end") : e < f

C7_Witness ==
    /\ fn = "benchmark_virtual_v1"
    /\ fpc = "return"
    /\ argN = MaxN
    /\ argK = MaxK
    /\ Cardinality(At(inv, "free")) = MaxN

\* C8: in the realistic allocation functions the timed region is exactly
\* the N appends: the first append follows the start instant, the end
\* instant follows the N-th append, the reads of the summing pass, the sink
\* write and the releases come after the end instant, and the duration
\* returned is the end instant minus the start instant.
C8_TimedRegionIsTheAppends ==
    (inv > 0 /\ CallOf(inv).fn \in RetainFns) =>
        LET c == CallOf(inv)
            appends == At(inv, "append")
            after == At(inv, "read") \cup At(inv, "sink") \cup At(inv, "free")
        IN  /\ Cardinality(At(inv, "start")) <= 1
            /\ Cardinality(At(inv, "end")) <= 1
            /\ \A s \in At(inv, "start") :
                  /\ \A j \in appends : s < j
                  /\ s < Len(log) => log[s + 1].op = "append"
            /\ \A e \in At(inv, "end") :
                  /\ Cardinality(appends) = c.n
                  /\ \A j \in appends : j < e
                  /\ \A s \in At(inv, "start") : e = s + c.n + 1
            /\ \A j \in after : \E e \in At(inv, "end") : e < j
            /\ \A r \in At(inv, "return") :
                  \E s \in At(inv, "start"), e \in At(inv, "end") :
                      /\ log[r].val = log[e].val - log[s].val
                      /\ ret = log[r].val

C8_Witness ==
    /\ inv > 0
    /\ CallOf(inv).fn = "benchmarkStackRealistic"
    /\ CallOf(inv).n = MaxN
    /\ At(inv, "return") # {}
    /\ ret > 0

\* C9 as stated: in every edition of the dispatch benchmark no element of
\* the dynamic-dispatch population refers to a separately allocated record
\* and the invocation allocates no record of its own.
C9_DynamicPopulationInline ==
    fn \in {"benchmark_virtual", "benchmark_virtual_v1", "benchmarkInterface"} =>
        /\ \A j \in 1..Len(points) : points[j].ref => points[j].addr = 0
        /\ AllocatedBy(inv) = {}

\* q is the integer quotient of e by d.
IsQuotient(q, e, d) == e >= 0 /\ d > 0 /\ q * d <= e /\ e < (q + 1) * d

\* The divisor the claim names for the timed invocation of function f: the
\* N (and K) that invocation was called with.
OpsOf(f) ==
    LET c == log[CHOOSE j \in Did(f, "call") : log[j].timed]
    IN  IF HasIterations(prog) THEN c.n * c.k ELSE c.n

\* The duration the timed invocation of function f returned.
ReturnedBy(f) == log[CHOOSE j \in Did(f, "return") : log[j].timed].val

\* C10: the per-operation figure the driver derives and prints for a
\* variant is the integer quotient of the duration its timed invocation
\* returned by N x K (pointer chasing, dispatch) or N (allocation), N and K
\* being the arguments of that timed invocation.
C10_PerOperation ==
    LET pers == SelectSeq(out, LAMBDA l : l.line = "per_op")
    IN  /\ mpc \in {"timed2", "report2", "speedup", "done"} =>
              /\ firstTime = ReturnedBy(First(prog))
              /\ IsQuotient(firstPer, firstTime, OpsOf(First(prog)))
              /\ pers[1].val = firstPer
        /\ mpc \in {"speedup", "done"} =>
              /\ secondTime = ReturnedBy(Second(prog))
              /\ IsQuotient(secondPer, secondTime, OpsOf(Second(prog)))
              /\ pers[2].val = secondPer

C10_Witness ==
    /\ mpc = "done"
    /\ prog = "cpp_pointer_chasing"
    /\ n = MaxN
    /\ iterations = MaxK
    /\ firstPer > 0
    /\ firstPer * (n * iterations) < firstTime

\* C11: a pass over N records (i, i) accumulates the sum of i + i for i in
\* 0..N-1, that is N x (N - 1), in the contiguous and in the scattered
\* pass, in C++ and in Go; over the 5 records (0,0)..(4,4) that is 20 in
\* both.
C11_SumIsNTimesNMinusOne ==
    \A f \in {"benchmark_value_array", "benchmark_pointer_array",
              "benchmarkValueArray", "benchmarkPointerArray"} :
        \A a \in Did(f, "guard") :
            /\ log[a].val = log[a].n * (log[a].n - 1)
            /\ log[a].n = 5 => log[a].val = 20

C11_Witness ==
    /\ \E a \in Did("benchmarkValueArray", "guard") :
          log[a].n = 5 /\ log[a].val = 20
    /\ \E b \in Did("benchmarkPointerArray", "guard") :
          log[b].n = 5 /\ log[b].val = 20

DispatchFns ==
    { "benchmark_virtual", "benchmark_static", "benchmark_virtual_v1",
      "benchmark_static_v1", "benchmarkInterface", "benchmarkConcrete" }

\* v (in units of 10^-5) is within 10^-3 of m x pi. In units of 10^-7,
\* m x pi lies between m x 31415926 and m x 31415927.
NearPi(v, m) ==
    /\ v * 100 - m * 31415926 < 10000
    /\ m * 31415927 - v * 100 < 10000

\* C12: over the radii 0, 1, 2, 3 every dispatch variant computes areas
\* that are 0, pi, 4 pi and 9 pi and a per-pass sum that is 14 pi, each
\* within 10^-3, with 3.14159 standing for pi.
C12_AreasOfFourCircles ==
    /\ \A f \in DispatchFns : \A a \in Did(f, "guard") :
          log[a].n = 4 => NearPi(log[a].val, 14)
    /\ (fn \in DispatchFns /\ argN = 4 /\ clock = "running") =>
          \A j \in 1..4 : NearPi(Term(fn, points[j], heap), (j - 1) * (j - 1))

C12_Witness ==
    /\ fn = "benchmarkConcrete"
    /\ argN = 4
    /\ fpc = "end"
    /\ \E a \in Did("benchmarkInterface", "guard") :
          log[a].n = 4 /\ log[a].val = 14 * PiScaled
    /\ \E b \in Did("benchmarkConcrete", "guard") :
          log[b].n = 4 /\ log[b].val = 14 * PiScaled

Returns == {j \in 1..Len(log) : log[j].op = "return"}

\* C13: under a clock that advances by a fixed amount >= 0 per step, the
\* duration a benchmark function returns is never negative, and of two
\* invocations of one function on the same N the one with the larger K
\* does not return the smaller duration.
C13_ElapsedNonNegativeMonotone ==
    \A a \in Returns :
        /\ log[a].val >= 0
        /\ \A b \in Returns :
              (log[a].fn = log[b].fn /\ log[a].n = log[b].n
                 /\ log[a].k <= log[b].k) => log[a].val <= log[b].val

C13_Witness ==
    \E a, b \in Returns :
        /\ log[a].fn = log[b].fn
        /\ log[a].n = log[b].n
        /\ log[a].k < log[b].k
        /\ log[a].val < log[b].val
        /\ tick > 0

Calls == {j \in 1..Len(log) : log[j].op = "call"}

\* The lines of one kind printed so far, in order.
Lines(kind) == SelectSeq(out, LAMBDA l : l.line = kind)

\* C14: before the first timed call main has called each of the two
\* variants once with (1000, 10), or (1000) where there is no K, and each
\* of these warm-up invocations has returned; the totals, the per-
\* operation figures and the ratio are those of the timed invocations.
C14_WarmUpFirstAndDropped ==
    /\ \A c \in Calls :
          IF log[c].timed
          THEN \A f \in {First(prog), Second(prog)} :
                  \E r \in Did(f, "return") : r < c /\ ~log[r].timed
          ELSE /\ log[c].srcN = 1000
               /\ log[c].srcK = IF HasIterations(prog) THEN 10 ELSE 0
               /\ log[c].n = WarmN
    /\ mpc \in {"report1", "timed2", "report2", "speedup", "done"} =>
          firstTime = ReturnedBy(First(prog))
    /\ mpc \in {"report2", "speedup", "done"} =>
          secondTime = ReturnedBy(Second(prog))
    /\ Len(Lines("total")) >= 1 =>
          /\ Lines("total")[1].val = ReturnedBy(First(prog))
          /\ Lines("per_op")[1].val =
                PerOp(prog, ReturnedBy(First(prog)), n, iterations)
    /\ Len(Lines("total")) >= 2 =>
          /\ Lines("total")[2].val = ReturnedBy(Second(prog))
          /\ Lines("per_op")[2].val =
                PerOp(prog, ReturnedBy(Second(prog)), n, iterations)
    /\ mpc = "done" =>
          speedup = Speedup(prog, ReturnedBy(First(prog)),
                            ReturnedBy(Second(prog)))

C14_Witness ==
    /\ mpc = "done"
    /\ \A f \in {First(prog), Second(prog)} :
          \E r \in Did(f, "return") :
              ~log[r].timed /\ log[r].val # ReturnedBy(f)
    /\ Len(Lines("total")) = 2

\* What a complete run prints, line by line.
Report == <<"header", "total", "per_op", "total", "per_op", "speedup">>

\* What has been printed is the beginning of the report; the second pair
\* of result lines and the ratio line wait for the timed invocation they
\* report on.
OutputInOrder ==
    /\ Len(out) <= Len(Report)
    /\ \A j \in 1..Len(out) : out[j].line = Report[j]
    /\ Len(out) >= 2 => \E r \in Did(First(prog), "return") : log[r].timed
    /\ Len(out) >= 4 => \E r \in Did(Second(prog), "return") : log[r].timed
    /\ Len(out) = Len(Report) =>
          /\ mpc = "done"
          /\ fpc = "idle"
          /\ log[Len(log)].op = "return"
    /\ mpc = "done" => Len(out) = Len(Report)

Tested == {j \in 1..Len(log) : log[j].op \in {"guard", "touch"}}

RECURSIVE PassSum(_, _, _, _)
PassSum(f, pts, h, m) ==
    IF m = 0 THEN 0 ELSE PassSum(f, pts, h, m - 1) + Term(f, pts[m], h)

\* C17: the value tested at the end of a pass is the sum of that pass
\* alone: it is the same at the end of every pass of an invocation,
\* whatever K is.
C17_AccumulatorResetEachPass ==
    /\ fpc = "guard" => sum = PassSum(fn, points, heap, argN)
    /\ \A a, b \in At(inv, "guard") : log[a].val = log[b].val
    /\ \A f \in PassFns : \A a, b \in Did(f, "guard") :
          log[a].n = log[b].n => log[a].val = log[b].val

C17_Witness ==
    /\ fpc = "guard"
    /\ iter = 1
    /\ argK = MaxK
    /\ sum > 0
    /\ sum = PassSum(fn, points, heap, argN)
    /\ Cardinality(At(inv, "guard")) = 1

\* C18: while the clock of a pointer-chasing or dispatch benchmark runs,
\* no step changes the population: its length, the references it stores
\* and the fields of every record stay what they were at the start instant.
C18_PopulationImmutableWhileTimed ==
    [][(fn \in PassFns /\ clock = "running") =>
          (points' = points /\ heap' = heap)]_vars

C18_Witness ==
    /\ fn \in PassFns
    /\ clock = "running"
    /\ fpc = "end"
    /\ argN = MaxN
    /\ argK = MaxK
    /\ Len(points) = MaxN
    /\ Cardinality(At(inv, "visit")) = MaxN * MaxK

\* The event at position q of invocation v lies where the loops put it:
\* after the start instant come K blocks of a pass head, the visits of
\* the indices 0..N-1 in increasing order, and a guard.
InItsPlace(v, q) ==
    LET m   == CallOf(v).n
        s   == CHOOSE j \in At(v, "start") : TRUE
        off == (q - s) - 1
        at  == off % (m + 2)
    IN  CASE log[q].op = "pass"  -> at = 0 /\ log[q].val = off \div (m + 2)
          [] log[q].op = "visit" -> at \in 1..m /\ log[q].val = at - 1
          [] log[q].op = "guard" -> at = m + 1 /\ log[q].val >= 0
          [] OTHER               -> TRUE

\* C19: a pass visits the indices 0..N-1 in increasing order, each once;
\* an invocation that has taken its end instant has made N x K visits, and
\* this count is what main divides the duration by.
C19_EachIndexOncePerPass ==
    /\ \A q \in 1..Len(log) :
          (log[q].fn \in PassFns /\ At(log[q].inv, "start") # {}) =>
              InItsPlace(log[q].inv, q)
    /\ \A v \in 1..inv :
          (CallOf(v).fn \in PassFns /\ At(v, "end") # {}) =>
              Cardinality(At(v, "visit")) = CallOf(v).n * CallOf(v).k
    /\ (HasIterations(prog) /\ mpc \in {"timed2", "report2", "speedup", "done"}) =>
          IsQuotient(firstPer, firstTime, Cardinality(At(3, "visit")))
    /\ (HasIterations(prog) /\ mpc \in {"speedup", "done"}) =>
          IsQuotient(secondPer, secondTime, Cardinality(At(4, "visit")))

C19_Witness ==
    /\ mpc = "done"
    /\ HasIterations(prog)
    /\ n = MaxN
    /\ iterations = MaxK
    /\ Cardinality(At(4, "visit")) = MaxN * MaxK
    /\ \E q \in At(4, "visit") : log[q].val = MaxN - 1

\* The names of all the fields of the record function f makes.
AllFields(f) ==
    LET m == New(f, 0, 1)
    IN  DOMAIN (IF m.elem.ref THEN m.obj[1] ELSE m.elem.val[1])

\* After the appends the collection of a retain function holds the argN
\* records in the order they were appended: the j-th is the one made in
\* turn j - 1, and no two elements share a record.
RetainedInOrder ==
    (fn \in RetainFns /\ fpc \in {"end", "sum", "sink"}) =>
        /\ Len(points) = argN
        /\ \A j \in 1..argN : Term(fn, points[j], heap) = 2 * (j - 1)
        /\ \A j, l \in 1..argN :
              (points[j].ref /\ j # l) => points[j].addr # points[l].addr

\* The untimed pass of the invocation reads the records in order, one
\* read each.
ReadInOrder ==
    \A q \in At(inv, "read") :
        log[q].val = Cardinality({r \in At(inv, "read") : r < q})

\* C20 as stated: N records in insertion order, and the pass adds every
\* field of every record, the filler payload included, into the sink.
C20_SumsEveryField ==
    /\ RetainedInOrder
    /\ ReadInOrder
    /\ \A q \in At(inv, "read") :
          log[q].fields = AllFields(log[q].fn)

\* C20, amended: N records in insertion order; the pass reads the two
\* coordinate fields of every record, never the filler payload, and the
\* sink receives the sum of the coordinates, N x (N - 1).
C20_SumsTheCoordinates ==
    /\ RetainedInOrder
    /\ ReadInOrder
    /\ \A q \in At(inv, "read") :
          /\ log[q].fields = FieldsRead(log[q].fn)
          /\ log[q].fields \cap {"data", "Data"} = {}
    /\ \A q \in At(inv, "sink") :
          /\ Cardinality(At(inv, "read")) = log[q].n
          /\ log[q].val = log[q].n * (log[q].n - 1)
          /\ gSum = log[q].val

C20_Witness ==
    /\ fn \in RetainFns
    /\ argN = MaxN
    /\ fpc = "return"
    /\ gSum = MaxN * (MaxN - 1)
    /\ Cardinality(At(inv, "read")) = MaxN

\* The reference variant and the value variant of a program's pair.
ReferenceVariant(pr) == CHOOSE f \in {First(pr), Second(pr)} : f \in ReferenceFns
ValueVariant(pr) == CHOOSE f \in {First(pr), Second(pr)} : f \notin ReferenceFns

\* C21: the ratio is the duration of the timed invocation of the pointer /
\* dynamic-dispatch / heap variant over that of the timed invocation of the
\* value / static-dispatch / stack variant, whichever of the two main
\* called first.
C21_SpeedupIsReferenceOverValue ==
    mpc = "done" =>
        speedup = << ReturnedBy(ReferenceVariant(prog)),
                     ReturnedBy(ValueVariant(prog)) >>

C21_Witness ==
    /\ mpc = "done"
    /\ prog = "go_pointer_chasing"
    /\ First(prog) = ValueVariant(prog)
    /\ firstTime < secondTime
    /\ speedup = <<secondTime, firstTime>>
    /\ \E r \in Did(First(prog), "return") : ~log[r].timed /\ log[r].val # firstTime

CppPrograms ==
    { "cpp_pointer_chasing", "cpp_virtual_dispatch", "cpp_virtual_dispatch_v1",
      "cpp_allocation", "cpp_allocation_realistic" }

\* C23: main makes its calls one after another, each after the return of
\* the one before; in a C++ program the records live at any point are
\* records the invocation in progress allocated, at most as many as its N
\* (that of the warm-up call (1000), that of the timed call (n)), and none
\* is live once the invocation is about to return.
C23_OnePopulationLive ==
    /\ \A c \in Calls :
          log[c].inv > 1 => \E r \in At(log[c].inv - 1, "return") : r < c
    /\ fpc = "idle" <=> fn = ""
    /\ prog \in CppPrograms =>
          /\ DOMAIN heap \subseteq AllocatedBy(inv)
          /\ Cardinality(DOMAIN heap) <= argN
          /\ fpc \in {"idle", "return"} => DOMAIN heap = {}
          /\ (fpc # "idle" /\ ~CallOf(inv).timed) =>
                argN = WarmN /\ CallOf(inv).srcN = WarmupN
          /\ (fpc # "idle" /\ CallOf(inv).timed) =>
                argN = n /\ CallOf(inv).srcN = ConstN(prog)

C23_Witness ==
    /\ prog = "cpp_allocation_realistic"
    /\ inv = 3
    /\ fn = "benchmark_heap_realistic"
    /\ n = MaxN
    /\ Cardinality(DOMAIN heap) = MaxN
    /\ Cardinality(At(1, "free")) = WarmN

(***************************************************************************)
(* The integer operations at the sizes the programs run with.  The sums of *)
(* N x (N - 1) and the products of two values below 10^8 do not fit the    *)
(* integers of the checker: a wide number is <<a, b, c>>, standing for     *)
(* a x 10^16 + b x 10^8 + c with b, c < 10^8.                              *)
(***************************************************************************)
Wide(v) == <<0, v \div 100000000, v % 100000000>>

\* The product of a and b, both in 0..10^8 - 1, by halves of four digits.
WideMul(a, b) ==
    LET a1   == a \div 10000
        a0   == a % 10000
        b1   == b \div 10000
        b0   == b % 10000
        mid  == a1 * b0 + a0 * b1
        low  == (mid % 10000) * 10000 + a0 * b0
        high == a1 * b1 + mid \div 10000 + low \div 100000000
    IN  <<high \div 100000000, high % 100000000, low % 100000000>>

WideLeq(x, y) ==
    \/ x[1] < y[1]
    \/ x[1] = y[1] /\ x[2] < y[2]
    \/ x[1] = y[1] /\ x[2] = y[2] /\ x[3] <= y[3]

\* The largest value of a signed integer of 32 and of 64 bits:
\* 2147483647 and 9223372036854775807.
TypeMax(bits) ==
    IF bits = 32 THEN <<0, 21, 47483647>> ELSE <<922, 33720368, 54775807>>

\* struct Point { int x, y; }, int radius: 32 bits; Go's int: 64 bits.
FieldBits(f) == IF f \in GoFns THEN 64 ELSE 32

\* Mutant: the accumulator declared as int.
AccumulatorBits_Int(f) == 32

\* long long sum = 0;   sum := 0   sum := int64(0)
AccumulatorBits(f) == 64

\* n * iterations in size_t, int64(n*iterations), int64(n).
DivisorBits(pr) == 64

\* The sizes examined: the smallest, the warm-up's, the programs' n.
Sizes == {1, 2, WarmupN, 1000000, 10000000}

\* The record the collection element e stands for.
RecordAt(e, h) == IF e.ref THEN h[e.addr] ELSE e.val[1]

\* The functions whose accumulator is an integer.
IntegerSumFns == (PassFns \ DispatchFns) \cup RetainFns

\* An invocation of a function of the program on a population of a size in
\* Sizes, about to make one of its records.
RangeInit ==
    /\ prog \in Programs
    /\ n \in Sizes
    /\ iterations \in (IF HasIterations(prog) THEN {WarmupK, ConstK(prog)} ELSE {0})
    /\ tick = 0
    /\ mpc = "called"
    /\ inv = 1
    /\ fn \in {First(prog), Second(prog)}
    /\ argN = n
    /\ argK = iterations
    /\ fpc = "store"
    /\ i = 0
    /\ iter = 0
    /\ sum = Wide(0)
    /\ points = <<>>
    /\ cap = 0
    /\ p = <<>>
    /\ heap = <<>>
    /\ relCount = <<>>
    /\ nextAddr = 1
    /\ now = 0
    /\ clock = "unset"
    /\ start = 0
    /\ end = 0
    /\ ret = 0
    /\ firstTime = 0
    /\ secondTime = 0
    /\ firstPer = 0
    /\ secondPer = 0
    /\ speedup = <<0, 0>>
    /\ gSum = 0
    /\ out = <<>>
    /\ log = <<>>

RangeRest ==
    <<config, inv, fn, argN, argK, iter, cap, p, relCount, nextAddr, now,
      timing, ret, results, gSum, out, log>>

\* new Point{(int)i, (int)i}, p->x = i, Circle{Radius: i}: the record of
\* the first, a middle or the last turn of the loop is made, its index
\* converted to the type of the field.
RangeStore ==
    /\ fpc = "store"
    /\ \E idx \in {0, argN \div 2, argN - 1} :
          LET m == New(fn, idx, 1)
          IN  /\ i' = idx
              /\ points' = <<m.elem>>
              /\ heap' = IF Len(m.obj) > 0 THEN <<m.obj[1]>> ELSE <<>>
    /\ mpc' = "stored"
    /\ fpc' = CASE fn \in IntegerSumFns           -> "term"
                [] fn \in DispatchFns \cap GoFns  -> "term"
                [] OTHER                          -> "divisor"
    /\ UNCHANGED <<RangeRest, sum>>

\* points[i]->x + points[i]->y   c.Radius*c.Radius: the integer operation
\* on the fields of that record.
RangeTerm ==
    /\ fpc = "term"
    /\ sum' = IF fn \in DispatchFns
              THEN WideMul(RecordAt(points[1], heap).Radius,
                           RecordAt(points[1], heap).Radius)
              ELSE Wide(Term(fn, points[1], heap))
    /\ mpc' = "term"
    /\ fpc' = IF fn \in IntegerSumFns THEN "pass" ELSE "divisor"
    /\ UNCHANGED <<RangeRest, i, points, heap>>

\* What the accumulator holds after the last turn of a pass over the records
\* (0,0) .. (N-1,N-1): N x (N - 1).
RangePass ==
    /\ fpc = "pass"
    /\ sum' = WideMul(argN, argN - 1)
    /\ mpc' = "pass"
    /\ fpc' = "divisor"
    /\ UNCHANGED <<RangeRest, i, points, heap>>

\* pointer_time / (n * iterations), heap_time / n: main's divisor.
RangeDivisor ==
    /\ fpc = "divisor"
    /\ sum' = WideMul(argN, IF HasIterations(prog) THEN argK ELSE 1)
    /\ mpc' = "divisor"
    /\ fpc' = "idle"
    /\ UNCHANGED <<RangeRest, i, points, heap>>

RangeNext == RangeStore \/ RangeTerm \/ RangePass \/ RangeDivisor

RangeSpec == RangeInit /\ [][RangeNext]_vars

\* The fields of a record that hold a number made from the index.
IndexFields(r) == DOMAIN r \ {"data", "Data", "vptr"}

\* C24: at every size from 1 to 10^7 the integer operations stay in the
\* range of their type: the index stored in a field is the index, x + y
\* fits the type of the fields, Radius*Radius fits Go's int, the sum of a
\* pass, N x (N - 1), fits the 64-bit accumulator, and N x K fits the type
\* main computes it in.
C24_IntegersStayInRange ==
    /\ mpc = "stored" =>
          \A k \in IndexFields(RecordAt(points[1], heap)) :
              /\ RecordAt(points[1], heap)[k] = i
              /\ WideLeq(Wide(i), TypeMax(FieldBits(fn)))
    /\ mpc = "term" => WideLeq(sum, TypeMax(FieldBits(fn)))
    /\ mpc = "pass" => WideLeq(sum, TypeMax(AccumulatorBits(fn)))
    /\ mpc = "divisor" => WideLeq(sum, TypeMax(DivisorBits(prog)))

C24_Witness ==
    /\ mpc = "pass"
    /\ fn = "benchmark_pointer_array"
    /\ argN = 10000000
    /\ i = argN - 1
    /\ Term(fn, points[1], heap) = 19999998
    /\ sum = <<0, 999999, 90000000>>
====
